---------------------------- MODULE Spec2Model ----------------------------
(***************************************************************************)
(* EcoSim local server (src/ecosystem/server.py): a single-threaded HTTP   *)
(* server that stores named "universe" documents as files of one flat      *)
(* save directory.                                                         *)
(*                                                                         *)
(* Text is modelled as a sequence of one-character strings, so that the    *)
(* regular expressions of safe_filename, the text-mode file reads and the  *)
(* JSON reader are computed character by character.  The platform is       *)
(* POSIX: os.sep is "/" and os.linesep is "\n".                            *)
(***************************************************************************)
EXTENDS Integers, Sequences, FiniteSets, TLC

(***************************************************************************)
(* Characters                                                              *)
(***************************************************************************)

\* The characters the model uses, in ascending code point order.
AsciiOrder ==
  << "\t", "\n", "\r", " ", "!", "\"", ",", "-", ".", "/",
     "0", "1", "2", "3", "4", "5", "6", "7", "8", "9", ":",
     "A", "B", "C", "D", "E", "F", "G", "H", "I", "J", "K", "L", "M",
     "N", "O", "P", "Q", "R", "S", "T", "U", "V", "W", "X", "Y", "Z",
     "[", "\\", "]", "_",
     "a", "b", "c", "d", "e", "f", "g", "h", "i", "j", "k", "l", "m",
     "n", "o", "p", "q", "r", "s", "t", "u", "v", "w", "x", "y", "z",
     "{", "}" >>

\* Rank of a character in code point order (what str comparison uses).
ord(c) == CHOOSE i \in 1..Len(AsciiOrder) : AsciiOrder[i] = c

Digits == {"0", "1", "2", "3", "4", "5", "6", "7", "8", "9"}

Letters ==
  {"A", "B", "C", "D", "E", "F", "G", "H", "I", "J", "K", "L", "M",
   "N", "O", "P", "Q", "R", "S", "T", "U", "V", "W", "X", "Y", "Z",
   "a", "b", "c", "d", "e", "f", "g", "h", "i", "j", "k", "l", "m",
   "n", "o", "p", "q", "r", "s", "t", "u", "v", "w", "x", "y", "z"}

\* The regular expression class \w: alphanumerics and the underscore.
IsWord(c) == c \in Letters \cup Digits \cup {"_"}

\* The regular expression class \s, which is also what str.strip() removes.
IsSpace(c) == c \in {" ", "\t", "\n", "\r"}

(***************************************************************************)
(* Strings                                                                 *)
(***************************************************************************)

RECURSIVE Filter(_, _)
\* The characters of s that belong to the set keep, in order.
Filter(s, keep) ==
  IF s = << >> THEN << >>
  ELSE IF Head(s) \in keep THEN << Head(s) >> \o Filter(Tail(s), keep)
       ELSE Filter(Tail(s), keep)

\* str.strip(): drop leading and trailing whitespace.
strip(s) ==
  LET idx == {i \in 1..Len(s) : ~IsSpace(s[i])}
  IN  IF idx = {} THEN << >>
      ELSE LET lo == CHOOSE i \in idx : \A j \in idx : i <= j
               hi == CHOOSE i \in idx : \A j \in idx : i >= j
           IN  SubSeq(s, lo, hi)

RECURSIVE CollapseSpace(_)
\* re.sub(r'\s+', '_', s): every maximal run of whitespace becomes one "_".
CollapseSpace(s) ==
  IF s = << >> THEN << >>
  ELSE IF IsSpace(Head(s))
       THEN IF Len(s) > 1 /\ IsSpace(s[2])
            THEN CollapseSpace(Tail(s))
            ELSE << "_" >> \o CollapseSpace(Tail(s))
       ELSE << Head(s) >> \o CollapseSpace(Tail(s))

\* str.endswith(suffix)
endswith(s, suffix) ==
  /\ Len(s) >= Len(suffix)
  /\ SubSeq(s, Len(s) - Len(suffix) + 1, Len(s)) = suffix

\* str.startswith(prefix)
startswith(s, prefix) ==
  /\ Len(s) >= Len(prefix)
  /\ SubSeq(s, 1, Len(prefix)) = prefix

RECURSIVE replace(_, _, _)
\* str.replace(old, new): every non-overlapping occurrence, left to right.
replace(s, old, new) ==
  IF s = << >> THEN << >>
  ELSE IF startswith(s, old)
       THEN new \o replace(SubSeq(s, Len(old) + 1, Len(s)), old, new)
       ELSE << Head(s) >> \o replace(Tail(s), old, new)

\* a < b in Python's str ordering (lexicographic by code point).
StrLess(a, b) ==
  \E k \in 1..(Len(b)) :
     /\ k <= Len(a) + 1
     /\ \A i \in 1..(k - 1) : a[i] = b[i]
     /\ \/ k = Len(a) + 1
        \/ ord(a[k]) < ord(b[k])

RECURSIVE sorted(_)
\* sorted(S) for a set of strings: ascending sequence.
sorted(S) ==
  IF S = {} THEN << >>
  ELSE LET m == CHOOSE x \in S : \A y \in S \ {x} : StrLess(x, y)
       IN  << m >> \o sorted(S \ {m})

(***************************************************************************)
(* Name <-> filename mapping                                               *)
(***************************************************************************)

\* Python's None, as the result of safe_filename.
None == << >>

DotJson == << ".", "j", "s", "o", "n" >>

\* The characters re.sub(r'[^\w\s-]', '', name) keeps.
KeptChars == {c \in Letters \cup Digits \cup {"_", " ", "\t", "\n", "\r", "-"} :
                IsWord(c) \/ IsSpace(c) \/ c = "-"}

\* A plausible slip: the character class also lets "." and "/" through.
safe_filename_dots(name) ==
  LET safe == CollapseSpace(strip(Filter(name, KeptChars \cup {".", "/"})))
  IN  IF safe # << >> THEN safe \o DotJson ELSE None

safe_filename(name) ==
  LET safe == CollapseSpace(strip(Filter(name, KeptChars)))
  IN  IF safe # << >> THEN safe \o DotJson ELSE None

name_from_filename(filename) ==
  replace(replace(filename, DotJson, << >>), << "_" >>, << " " >>)

(***************************************************************************)
(* Paths and text-mode file I/O                                            *)
(***************************************************************************)

\* The save directory, an absolute path.
SAVES_DIR == << "/", "s", "a", "v", "e", "s" >>

\* os.path.join(a, b) on POSIX: an absolute b discards a.
path_join(a, b) ==
  IF startswith(b, << "/" >>) THEN b
  ELSE IF a = << >> \/ endswith(a, << "/" >>) THEN a \o b
       ELSE a \o << "/" >> \o b

\* os.linesep on POSIX.
linesep == << "\n" >>

\* What f.write(data) stores for a file opened with open(path, 'w'):
\* text mode writes "\n" as os.linesep, which is "\n" on POSIX; no other
\* character is changed.
write_text(data) == replace(data, << "\n" >>, linesep)

RECURSIVE read_text(_)
\* What f.read() returns for a file opened with open(path, 'r'): universal
\* newlines, "\r\n" and a lone "\r" are both returned as "\n".
read_text(stored) ==
  IF stored = << >> THEN << >>
  ELSE IF Head(stored) = "\r"
       THEN IF Len(stored) > 1 /\ stored[2] = "\n"
            THEN << "\n" >> \o read_text(SubSeq(stored, 3, Len(stored)))
            ELSE << "\n" >> \o read_text(Tail(stored))
       ELSE << Head(stored) >> \o read_text(Tail(stored))

(***************************************************************************)
(* json.load, for the documents the model stores: objects, arrays,         *)
(* strings without escapes, non-negative integers and null, separated by   *)
(* JSON whitespace.  A value is [t, n, items]: t its type, n the number,   *)
(* items the characters of a string, the elements of an array or the       *)
(* <<key, value>> pairs of an object.                                      *)
(***************************************************************************)

JNull == [t |-> "null", n |-> 0, items |-> << >>]
JNum(k) == [t |-> "number", n |-> k, items |-> << >>]
JStr(chars) == [t |-> "string", n |-> 0, items |-> chars]
JArr(elems) == [t |-> "array", n |-> 0, items |-> elems]
JObj(pairs) == [t |-> "object", n |-> 0, items |-> pairs]

\* A parse step: ok, the value read, and the position after it.
POk(v, p) == [ok |-> TRUE, val |-> v, pos |-> p]
PFail == [ok |-> FALSE, val |-> JNull, pos |-> 0]

IsJsonWs(c) == c \in {" ", "\t", "\n", "\r"}

\* First position at or after i that holds no whitespace (Len(s)+1 at end).
SkipWs(s, i) ==
  CHOOSE j \in i..(Len(s) + 1) :
     /\ \A k \in i..(j - 1) : IsJsonWs(s[k])
     /\ (j <= Len(s) => ~IsJsonWs(s[j]))

\* The character at position i, or "" past the end.
At(s, i) == IF i >= 1 /\ i <= Len(s) THEN s[i] ELSE ""

DigitVal(c) == ord(c) - ord("0")

RECURSIVE ParseDigits(_, _, _)
\* The digit run starting at i, with acc the value read so far.
ParseDigits(s, i, acc) ==
  IF At(s, i) \in Digits
  THEN ParseDigits(s, i + 1, 10 * acc + DigitVal(s[i]))
  ELSE POk(JNum(acc), i)

\* A number: "0", or a digit run without a leading zero.
ParseNumber(s, i) ==
  IF At(s, i) = "0" THEN POk(JNum(0), i + 1) ELSE ParseDigits(s, i, 0)

\* A string whose opening quote is at i - 1: up to the next quote; a raw
\* control character or an escape inside it is not accepted.
ParseString(s, i) ==
  LET ends == {j \in i..Len(s) : s[j] = "\""}
  IN  IF ends = {} THEN PFail
      ELSE LET e == CHOOSE j \in ends : \A k \in ends : j <= k
               body == SubSeq(s, i, e - 1)
           IN  IF \E k \in 1..Len(body) : body[k] \in {"\t", "\n", "\r", "\\"}
               THEN PFail
               ELSE POk(JStr(body), e + 1)

RECURSIVE ParseValue(_, _), ParseElements(_, _, _, _), ParseMembers(_, _, _, _)

\* The value that starts at or after position i.
ParseValue(s, i) ==
  LET j == SkipWs(s, i)
      c == At(s, j)
  IN  IF c = "{" THEN ParseMembers(s, j + 1, << >>, TRUE)
      ELSE IF c = "[" THEN ParseElements(s, j + 1, << >>, TRUE)
      ELSE IF c = "\"" THEN ParseString(s, j + 1)
      ELSE IF c \in Digits THEN ParseNumber(s, j)
      ELSE IF j + 3 <= Len(s) /\ SubSeq(s, j, j + 3) = << "n", "u", "l", "l" >>
           THEN POk(JNull, j + 4)
      ELSE PFail

\* The elements of an array after "[" or ","; first: nothing read yet.
ParseElements(s, i, acc, first) ==
  LET j == SkipWs(s, i)
  IN  IF first /\ At(s, j) = "]" THEN POk(JArr(acc), j + 1)
      ELSE LET v == ParseValue(s, j)
               k == SkipWs(s, v.pos)
           IN  IF ~v.ok THEN PFail
               ELSE IF At(s, k) = "," 
                    THEN ParseElements(s, k + 1, Append(acc, v.val), FALSE)
               ELSE IF At(s, k) = "]" 
                    THEN POk(JArr(Append(acc, v.val)), k + 1)
               ELSE PFail

\* The members of an object after "{" or ","; first: nothing read yet.
ParseMembers(s, i, acc, first) ==
  LET j == SkipWs(s, i)
  IN  IF first /\ At(s, j) = "}" THEN POk(JObj(acc), j + 1)
      ELSE IF At(s, j) # "\"" THEN PFail
      ELSE LET key == ParseString(s, j + 1)
               c == SkipWs(s, key.pos)
               v == ParseValue(s, c + 1)
               k == SkipWs(s, v.pos)
               pair == << key.val.items, v.val >>
           IN  IF ~key.ok \/ At(s, c) # ":" THEN PFail
               ELSE IF ~v.ok THEN PFail
               ELSE IF At(s, k) = "," 
                    THEN ParseMembers(s, k + 1, Append(acc, pair), FALSE)
               ELSE IF At(s, k) = "}" 
                    THEN POk(JObj(Append(acc, pair)), k + 1)
               ELSE PFail

\* json.load on the text read from a file: one value, then only whitespace.
\* ok = FALSE stands for the JSONDecodeError.
json_load(text) ==
  LET v == ParseValue(text, 1)
  IN  IF v.ok /\ SkipWs(text, v.pos) > Len(text) THEN v ELSE PFail

\* dict.get(key, default): the last member with that key wins.
dict_get(obj, key, default) ==
  LET hits == {i \in 1..Len(obj.items) : obj.items[i][1] = key}
  IN  IF hits = {} THEN default
      ELSE obj.items[CHOOSE i \in hits : \A j \in hits : i >= j][2]

\* Whether len(v) is defined: it raises TypeError for numbers and None.
has_len(v) == v.t \in {"array", "string", "object"}

\* len(v) for a value that has one; an object counts its distinct keys.
py_len(v) ==
  IF v.t = "object"
  THEN Cardinality({v.items[i][1] : i \in 1..Len(v.items)})
  ELSE Len(v.items)

(***************************************************************************)
(* The file system: a function from absolute paths to stored contents.     *)
(***************************************************************************)

EmptyFs == [p \in {} |-> << >>]

\* os.makedirs(SAVES_DIR, exist_ok=True) runs when the module is loaded, and
\* the server never removes the directory.
SavesDirExists == TRUE

\* os.path.exists(path)
path_exists(d, path) == path \in DOMAIN d

\* os.listdir(directory): the names of the entries directly inside it.
listdir(d, directory) ==
  LET prefix == directory \o << "/" >>
  IN  {SubSeq(p, Len(prefix) + 1, Len(p)) :
         p \in {q \in DOMAIN d :
                  /\ startswith(q, prefix)
                  /\ Len(q) > Len(prefix)
                  /\ \A i \in (Len(prefix) + 1)..Len(q) : q[i] # "/"}}

\* The file system after open(path, 'w') and f.write(data).
fs_write(d, path, data) ==
  [p \in DOMAIN d \cup {path} |-> IF p = path THEN write_text(data) ELSE d[p]]

\* The file system after os.remove(path).
fs_remove(d, path) == [p \in DOMAIN d \ {path} |-> d[p]]

\* What a handler did to the file system, and to which path.
NoOp == [op |-> "none", path |-> << >>]
FsOp(kind, path) == [op |-> kind, path |-> path]

(***************************************************************************)
(* Logging and responses                                                   *)
(***************************************************************************)

\* EcoSimHandler.log_message(format, *args); args holds the Python type of
\* each argument.  '/api/' in args[0] raises TypeError unless args[0] is a
\* str.  TRUE: the call raises.
log_message_raises(args) == args # << >> /\ args[1] # "str"

\* BaseHTTPRequestHandler.send_response(code) logs the request with
\* log_message('"%s" %s %s', requestline, str(code), str(size)).
send_response_raises == log_message_raises(<< "str", "str", "str" >>)

\* BaseHTTPRequestHandler.send_error(code, message) first logs with
\* log_message("code %d, message %s", code, message), code an int.
send_error_raises == log_message_raises(<< "int", "str" >>)

\* A response: the status line, what kind of body, and the body.  The
\* status "none" is a request that ended in an unhandled exception: the
\* connection is closed and no HTTP response is sent.
Response(status, kind, content, list, name) ==
  [status |-> status, kind |-> kind, content |-> content,
   list |-> list, name |-> name]

NoResponse == Response("none", "none", << >>, << >>, << >>)

\* send_error(code, message)
send_error(code) ==
  IF send_error_raises THEN NoResponse
  ELSE Response(code, "error", << >>, << >>, << >>)

\* send_json(data)
send_json(kind, list, name) ==
  IF send_response_raises THEN NoResponse
  ELSE Response("200", kind, << >>, list, name)

\* The 200 response of do_GET that carries a stored universe.
send_data(data) ==
  IF send_response_raises THEN NoResponse
  ELSE Response("200", "raw", data, << >>, << >>)

(***************************************************************************)
(* The store operations                                                    *)
(***************************************************************************)

K_tick == << "t", "i", "c", "k" >>
K_maxGeneration ==
  << "m", "a", "x", "G", "e", "n", "e", "r", "a", "t", "i", "o", "n" >>
K_creatures == << "c", "r", "e", "a", "t", "u", "r", "e", "s" >>

NoEntry ==
  [name |-> << >>, filename |-> << >>, tick |-> JNull, generation |-> JNull,
   population |-> 0, fileSize |-> 0]

\* A plausible slip: data['creatures'] instead of data.get('creatures', []),
\* so that a file without the field raises KeyError and is skipped.
summary_strict(d, f) ==
  LET filepath == path_join(SAVES_DIR, f)
      parsed == json_load(read_text(d[filepath]))
      data == parsed.val
      creatures == dict_get(data, K_creatures, JNull)
  IN  IF ~parsed.ok \/ data.t # "object" \/ ~has_len(creatures)
      THEN [raised |-> TRUE, entry |-> NoEntry]
      ELSE [raised |-> FALSE,
            entry |-> [name |-> name_from_filename(f),
                       filename |-> f,
                       tick |-> dict_get(data, K_tick, JNum(0)),
                       generation |-> dict_get(data, K_maxGeneration, JNum(0)),
                       population |-> py_len(creatures),
                       fileSize |-> Len(d[filepath])]]

\* The body of the try block of list_universes for the file named f:
\* raised stands for any exception, which the except clause swallows.
\* (savedAt, the modification time, is not modelled: the model has no clock.)
summary(d, f) ==
  LET filepath == path_join(SAVES_DIR, f)
      parsed == json_load(read_text(d[filepath]))
      data == parsed.val
      creatures == dict_get(data, K_creatures, JArr(<< >>))
  IN  IF ~parsed.ok
      THEN [raised |-> TRUE, entry |-> NoEntry]      \* JSONDecodeError
      ELSE IF data.t # "object"
      THEN [raised |-> TRUE, entry |-> NoEntry]      \* no .get: AttributeError
      ELSE IF ~has_len(creatures)
      THEN [raised |-> TRUE, entry |-> NoEntry]      \* len(): TypeError
      ELSE [raised |-> FALSE,
            entry |-> [name |-> name_from_filename(f),
                       filename |-> f,
                       tick |-> dict_get(data, K_tick, JNum(0)),
                       generation |-> dict_get(data, K_maxGeneration, JNum(0)),
                       population |-> py_len(creatures),
                       fileSize |-> Len(d[filepath])]]

RECURSIVE collect(_, _)
\* The for loop of list_universes over the file names in files.
collect(d, files) ==
  IF files = << >> THEN << >>
  ELSE LET f == Head(files)
           rest == collect(d, Tail(files))
       IN  IF ~endswith(f, DotJson) THEN rest
           ELSE IF summary(d, f).raised THEN rest
           ELSE << summary(d, f).entry >> \o rest

RECURSIVE reversed(_)
reversed(s) == IF s = << >> THEN << >> ELSE Append(reversed(Tail(s)), Head(s))

\* A plausible slip: the directory is listed without sorted(), in whatever
\* order the file system returns (here: descending).
list_universes_unsorted(d) ==
  collect(d, reversed(sorted(listdir(d, SAVES_DIR))))

list_universes(d) ==
  IF ~SavesDirExists THEN << >>
  ELSE collect(d, sorted(listdir(d, SAVES_DIR)))

load_universe(d, name) ==
  LET filename == safe_filename(name)
      filepath == path_join(SAVES_DIR, filename)
  IN  IF filename = None
      THEN [found |-> FALSE, data |-> << >>, fsop |-> NoOp]
      ELSE IF ~path_exists(d, filepath)
      THEN [found |-> FALSE, data |-> << >>, fsop |-> FsOp("exists", filepath)]
      ELSE [found |-> TRUE, data |-> read_text(d[filepath]),
            fsop |-> FsOp("read", filepath)]

\* A plausible slip: the file is opened with 'a' and the body is appended.
save_universe_append(d, name, data, fault) ==
  LET filename == safe_filename(name)
      filepath == path_join(SAVES_DIR, filename)
      old == IF path_exists(d, filepath) THEN d[filepath] ELSE << >>
  IN  IF filename = None
      THEN [ok |-> FALSE, fs |-> d, fsop |-> NoOp]
      ELSE [ok |-> TRUE, fs |-> fs_write(d, filepath, old \o data),
            fsop |-> FsOp(IF path_exists(d, filepath) THEN "truncate"
                          ELSE "create", filepath)]

\* fault: "none", or which call inside the try block raises: "open" (the
\* file is left as it was) or "write" (open has already truncated it).
save_universe(d, name, data, fault) ==
  LET filename == safe_filename(name)
      filepath == path_join(SAVES_DIR, filename)
      how == IF path_exists(d, filepath) THEN "truncate" ELSE "create"
  IN  IF filename = None
      THEN [ok |-> FALSE, fs |-> d, fsop |-> NoOp]
      ELSE IF fault = "open"
      THEN [ok |-> FALSE, fs |-> d, fsop |-> FsOp("open", filepath)]
      ELSE IF fault = "write"
      THEN [ok |-> FALSE, fs |-> fs_write(d, filepath, << >>),
            fsop |-> FsOp(how, filepath)]
      ELSE [ok |-> TRUE, fs |-> fs_write(d, filepath, data),
            fsop |-> FsOp(how, filepath)]

\* fault: "none", or how os.remove raises: "gone" (the file was removed
\* by someone else after the existence check) or "denied" (it stays).
\* raised: the exception leaves delete_universe, which has no try block.
delete_universe(d, name, fault) ==
  LET filename == safe_filename(name)
      filepath == path_join(SAVES_DIR, filename)
  IN  IF filename = None
      THEN [ok |-> FALSE, raised |-> FALSE, fs |-> d, fsop |-> NoOp]
      ELSE IF ~path_exists(d, filepath)
      THEN [ok |-> FALSE, raised |-> FALSE, fs |-> d,
            fsop |-> FsOp("exists", filepath)]
      ELSE IF fault = "gone"
      THEN [ok |-> FALSE, raised |-> TRUE, fs |-> fs_remove(d, filepath),
            fsop |-> FsOp("remove", filepath)]
      ELSE IF fault = "denied"
      THEN [ok |-> FALSE, raised |-> TRUE, fs |-> d,
            fsop |-> FsOp("remove", filepath)]
      ELSE [ok |-> TRUE, raised |-> FALSE, fs |-> fs_remove(d, filepath),
            fsop |-> FsOp("remove", filepath)]

(***************************************************************************)
(* Inputs                                                                  *)
(***************************************************************************)

\* Longest request name of the name-resolution specification.
MaxNameLen == 3

\* The characters of those names: a letter, a digit, whitespace, the two
\* separators the stem may keep, and path punctuation.
NameChars == {"a", "1", " ", "_", "-", ".", "/", "\\"}

AllNames == UNION {[1..k -> NameChars] : k \in 0..MaxNameLen}

\* The request names of the server specification (after percent-decoding).
Names ==
  { << >>,                                \* empty
    << "!" >>,                            \* only punctuation
    << "a", " ", "b" >>,                  \* two names with one filename
    << "a", "_", "b" >>,
    << "a", "_", "_", "b" >>,             \* two literal underscores
    << ".", ".", "/", "a", " ", "b" >> }  \* a path traversal attempt

Quoted(key) == << "\"" >> \o key \o << "\"" >>

\* {"creatures":[1,2],"tick":3,"maxGeneration":4}
B_full ==
  << "{" >> \o Quoted(K_creatures) \o << ":", "[", "1", ",", "2", "]", "," >>
  \o Quoted(K_tick) \o << ":", "3", "," >>
  \o Quoted(K_maxGeneration) \o << ":", "4", "}" >>

\* {}
B_empty == << "{", "}" >>

\* {"tick":1} followed by CR LF
B_crlf == << "{" >> \o Quoted(K_tick) \o << ":", "1", "}", "\r", "\n" >>

\* [1]
B_array == << "[", "1", "]" >>

\* {"creatures":5}
B_creatures_number == << "{" >> \o Quoted(K_creatures) \o << ":", "5", "}" >>

\* {"creatures":"ab"}
B_creatures_string ==
  << "{" >> \o Quoted(K_creatures) \o << ":", "\"", "a", "b", "\"", "}" >>

\* { followed by CR: not JSON
B_bad == << "{", "\r" >>

\* The request bodies: do_POST accepts any text.
Bodies ==
  {B_full, B_empty, B_crlf, B_array, B_creatures_number,
   B_creatures_string, B_bad}

\* A file that is in the save directory before the server starts and is
\* not a universe: /saves/notes
StrayPath == SAVES_DIR \o << "/", "n", "o", "t", "e", "s" >>
StrayFs == [p \in {StrayPath} |-> << "h", "i" >>]

(***************************************************************************)
(* State                                                                   *)
(***************************************************************************)

VARIABLES
  fs,     \* the file system
  req,    \* the request being handled, or handled last
  resp,   \* the response to it
  fsop    \* the file system call the handler made for it

vars == << fs, req, resp, fsop >>

Request(method, name, body) == [method |-> method, name |-> name, body |-> body]

Idle == Response("idle", "none", << >>, << >>, << >>)
Pending == Response("pending", "none", << >>, << >>, << >>)

\* The server has started; no request has arrived.
Init ==
  /\ fs \in {EmptyFs, StrayFs}
  /\ req = Request("NONE", << >>, << >>)
  /\ resp = Idle
  /\ fsop = NoOp

\* One request, with a name from AllNames, has arrived at a fresh server.
InitNames ==
  /\ fs = EmptyFs
  /\ req \in {Request(m, n, B_empty) : m \in {"GET", "POST", "DELETE"}, n \in AllNames}
  /\ resp = Pending
  /\ fsop = NoOp

(***************************************************************************)
(* Request handlers                                                        *)
(***************************************************************************)

\* do_GET for the path /api/universes
do_GET_list ==
  /\ req' = Request("LIST", << >>, << >>)
  /\ resp' = send_json("list", list_universes(fs), << >>)
  /\ fsop' = FsOp("listdir", SAVES_DIR)
  /\ fs' = fs

\* do_GET for the path /api/universes/<name>
do_GET(name) ==
  LET r == load_universe(fs, name)
  IN  /\ req' = Request("GET", name, << >>)
      /\ resp' = IF r.found THEN send_data(r.data) ELSE send_error("404")
      /\ fsop' = r.fsop
      /\ fs' = fs

\* do_POST for the path /api/universes/<name>
do_POST(name, body, fault) ==
  LET r == save_universe(fs, name, body, fault)
  IN  /\ req' = Request("POST", name, body)
      /\ resp' = IF r.ok THEN send_json("ok", << >>, name) ELSE send_error("400")
      /\ fsop' = r.fsop
      /\ fs' = r.fs

\* do_DELETE for the path /api/universes/<name>
do_DELETE(name, fault) ==
  LET r == delete_universe(fs, name, fault)
  IN  /\ req' = Request("DELETE", name, << >>)
      /\ resp' = IF r.raised THEN NoResponse
                 ELSE IF r.ok THEN send_json("ok", << >>, << >>)
                 ELSE send_error("404")
      /\ fsop' = r.fsop
      /\ fs' = r.fs

(***************************************************************************)
(* Specifications                                                          *)
(***************************************************************************)

List == do_GET_list
Load == \E name \in Names : do_GET(name)
Save == \E name \in Names, body \in Bodies : do_POST(name, body, "none")
Delete == \E name \in Names : do_DELETE(name, "none")

\* The server on a file system whose calls do not fail.
Next == List \/ Load \/ Save \/ Delete

Spec == Init /\ [][Next]_vars

\* The request bodies of the specification with failing calls.
FaultBodies == {B_empty, B_crlf}

SaveSome == \E name \in Names, body \in FaultBodies : do_POST(name, body, "none")

\* A Save whose open() or f.write() raises.
SaveFails ==
  \E name \in Names, body \in FaultBodies, fault \in {"open", "write"} :
     /\ safe_filename(name) # None
     /\ do_POST(name, body, fault)

\* A Delete whose os.remove() raises.
DeleteFails ==
  \E name \in Names, fault \in {"gone", "denied"} :
     /\ safe_filename(name) # None
     /\ path_exists(fs, path_join(SAVES_DIR, safe_filename(name)))
     /\ do_DELETE(name, fault)

\* The server on a file system whose writes and removals may fail.
NextFaults == List \/ Load \/ SaveSome \/ Delete \/ SaveFails \/ DeleteFails

SpecFaults == Init /\ [][NextFaults]_vars

\* The pending request is handled.
HandleGet == resp = Pending /\ req.method = "GET" /\ do_GET(req.name)
HandlePost == resp = Pending /\ req.method = "POST" /\ do_POST(req.name, req.body, "none")
HandleDelete == resp = Pending /\ req.method = "DELETE" /\ do_DELETE(req.name, "none")

NextNames == HandleGet \/ HandlePost \/ HandleDelete

SpecNames == InitNames /\ [][NextNames]_vars

(***************************************************************************)
(* Properties                                                              *)
(***************************************************************************)

\* The path of the file a request name addresses.
FileOf(name) == path_join(SAVES_DIR, safe_filename(name))

\* A name made only of letters, digits, spaces and hyphens whose sanitized
\* filename is not empty.
IsPlainName(name) ==
  /\ \A i \in 1..Len(name) : name[i] \in Letters \cup Digits \cup {" ", "-"}
  /\ safe_filename(name) # None

\* The *.json file names of the save directory.
JsonFiles == {f \in listdir(fs, SAVES_DIR) : endswith(f, DotJson)}

\* The stored content of the file named f of the save directory.
Stored(f) == fs[path_join(SAVES_DIR, f)]

\* The file names of the entries of the last List response.
Listed == {resp.list[i].filename : i \in 1..Len(resp.list)}

HasKey(obj, key) == \E i \in 1..Len(obj.items) : obj.items[i][1] = key

\* The value a JSON object holds for key: that of its last such member.
ValueOf(obj, key) ==
  LET i == CHOOSE i \in 1..Len(obj.items) :
              /\ obj.items[i][1] = key
              /\ \A j \in (i + 1)..Len(obj.items) : obj.items[j][1] # key
  IN  obj.items[i][2]

\* The stored text is a JSON object whose creatures field is absent or an
\* array: a universe record.
IsUniverse(stored) ==
  LET v == json_load(stored)
  IN  /\ v.ok
      /\ v.val.t = "object"
      /\ HasKey(v.val, K_creatures) => ValueOf(v.val, K_creatures).t = "array"

\* C1: a successful Save of a plain name followed by a Load of a name with
\* the same filename answers 200 with exactly the saved body.
C1_SaveLoadRoundTrip ==
  [][ ( /\ req.method = "POST" /\ resp.status = "200"
        /\ IsPlainName(req.name)
        /\ req'.method = "GET"
        /\ IsPlainName(req'.name)
        /\ safe_filename(req'.name) = safe_filename(req.name) )
      => ( resp'.status = "200" /\ resp'.content = req.body ) ]_vars

C3_DeleteSemantics ==
  [][ /\ req'.method = "DELETE" =>
           IF safe_filename(req'.name) = None \/ FileOf(req'.name) \notin DOMAIN fs
           THEN resp'.status = "404" /\ fs' = fs
           ELSE resp'.status = "200" /\ fs' = fs_remove(fs, FileOf(req'.name))
      /\ ( /\ req'.method = "GET"
           /\ (safe_filename(req'.name) = None \/ FileOf(req'.name) \notin DOMAIN fs) )
         => resp'.status = "404"
      /\ \A p \in DOMAIN fs' \ DOMAIN fs :
           req'.method = "POST" /\ FileOf(req'.name) = p ]_vars

\* C4: a Save whose name sanitizes to empty answers 400 and leaves the file
\* system as it was.
C4_RejectedSave ==
  [][ (req'.method = "POST" /\ safe_filename(req'.name) = None)
      => (resp'.status = "400" /\ fs' = fs) ]_vars

\* C5: the entries of a List response are in strictly ascending order of
\* filename, and each entry's population is the length of its file's
\* creatures array (0 if absent), its generation the file's maxGeneration
\* (0 if absent) and its tick the file's tick (0 if absent).
C5_ListOrderAndFields ==
  req.method = "LIST" =>
    /\ resp.status = "200"
    /\ \A i, j \in 1..Len(resp.list) :
         i < j => StrLess(resp.list[i].filename, resp.list[j].filename)
    /\ \A i \in 1..Len(resp.list) :
         LET e == resp.list[i]
             data == json_load(read_text(Stored(e.filename))).val
         IN  /\ e.filename \in JsonFiles
             /\ IF HasKey(data, K_creatures)
                THEN ValueOf(data, K_creatures).t = "array"
                       => e.population = Len(ValueOf(data, K_creatures).items)
                ELSE e.population = 0
             /\ e.generation = IF HasKey(data, K_maxGeneration)
                               THEN ValueOf(data, K_maxGeneration) ELSE JNum(0)
             /\ e.tick = IF HasKey(data, K_tick)
                         THEN ValueOf(data, K_tick) ELSE JNum(0)

\* C5 witness: a List of two universes, the first with two creatures, tick 3
\* and generation 4, the second without any of the three fields.
C5_Witness ==
  /\ req.method = "LIST"
  /\ Len(resp.list) = 2
  /\ Stored(resp.list[1].filename) = B_full
  /\ resp.list[1].population = 2
  /\ resp.list[1].tick = JNum(3)
  /\ resp.list[1].generation = JNum(4)
  /\ Stored(resp.list[2].filename) = B_empty
  /\ resp.list[2].population = 0

\* C6: List answers 200, omits every file whose content is not valid JSON
\* and includes every universe record; a Load of a name whose file holds
\* invalid JSON answers 200 with exactly the stored content.
C6_CorruptHiddenButLoadable ==
  /\ req.method = "LIST" =>
       /\ resp.status = "200"
       /\ \A f \in JsonFiles :
            /\ ~json_load(Stored(f)).ok => f \notin Listed
            /\ IsUniverse(Stored(f)) => f \in Listed
  /\ ( /\ req.method = "GET"
       /\ safe_filename(req.name) # None
       /\ FileOf(req.name) \in DOMAIN fs
       /\ ~json_load(fs[FileOf(req.name)]).ok )
     => ( resp.status = "200" /\ resp.content = fs[FileOf(req.name)] )

\* C7 as stated: List has an entry for exactly the *.json files whose
\* content parses as JSON.
C7_ListCompleteness_AsStated ==
  req.method = "LIST" =>
    \A f \in JsonFiles : json_load(Stored(f)).ok <=> f \in Listed

\* Whether List can summarise the stored text: it parses as a JSON object
\* whose creatures field is absent or is an array, a string or an object.
Summarisable(stored) ==
  LET v == json_load(stored)
  IN  /\ v.ok
      /\ v.val.t = "object"
      /\ HasKey(v.val, K_creatures) =>
            ValueOf(v.val, K_creatures).t \in {"array", "string", "object"}

\* C7 as amended: List has an entry for exactly the *.json files whose
\* content parses as a JSON object whose creatures field is absent or has a
\* length; valid JSON that is not an object, and objects whose creatures
\* field is a number or null, are skipped like unparsable files.
C7_ListCompleteness ==
  req.method = "LIST" =>
    /\ resp.status = "200"
    /\ Listed \subseteq JsonFiles
    /\ \A f \in JsonFiles : Summarisable(Stored(f)) <=> f \in Listed

\* C7 witness: a List that has an entry for an object without a creatures
\* field and skips a file that holds a JSON array.
C7_Witness ==
  /\ req.method = "LIST"
  /\ \E f \in JsonFiles : Stored(f) = B_array /\ f \notin Listed
  /\ \E f \in JsonFiles : Stored(f) = B_empty /\ f \in Listed

\* C8: every DELETE is answered with 200 or 404 and every POST with 200 or
\* 400, also when the file removal or the file write raises.
C8_FailuresSurface ==
  /\ req.method = "DELETE" => resp.status \in {"200", "404"}
  /\ req.method = "POST" => resp.status \in {"200", "400"}

\* A filename of the form safe_filename promises: a non-empty stem of
\* alphanumerics, underscores and hyphens, then ".json".
SafeShape(f) ==
  /\ endswith(f, DotJson)
  /\ Len(f) > Len(DotJson)
  /\ \A i \in 1..(Len(f) - Len(DotJson)) :
        f[i] \in Letters \cup Digits \cup {"_", "-"}

\* The path names a file directly inside the save directory.
DirectlyInside(path) ==
  LET prefix == SAVES_DIR \o << "/" >>
      base == SubSeq(path, Len(prefix) + 1, Len(path))
  IN  /\ startswith(path, prefix)
      /\ base # << >>
      /\ base \notin {<< "." >>, << ".", "." >>}
      /\ \A i \in 1..Len(base) : base[i] # "/"

\* C9: for every request name safe_filename gives no filename or one of
\* the safe shape, the path a Save, Load or Delete uses is directly inside
\* the save directory, and so is every file of the file system.
C9_PathConfinement ==
  /\ safe_filename(req.name) = None \/ SafeShape(safe_filename(req.name))
  /\ fsop.op # "none" => DirectlyInside(fsop.path)
  /\ \A p \in DOMAIN fs : DirectlyInside(p)

\* C9 witness: a Save named "/.a" has created a.json in the save directory.
C9_Witness ==
  /\ req.method = "POST" /\ resp # Pending
  /\ req.name = << "/", ".", "a" >>
  /\ fsop = FsOp("create", SAVES_DIR \o << "/", "a" >> \o DotJson)
  /\ DOMAIN fs = {fsop.path}

\* C10: the name of every entry of a List response addresses the entry's
\* own file.
C10_ListedNamesLoadable ==
  req.method = "LIST" =>
    \A i \in 1..Len(resp.list) :
       safe_filename(resp.list[i].name) = resp.list[i].filename

=============================================================================
